---- MODULE Spec2Model ----
(***************************************************************************)
(* A model of the runtime facade (mod.ts, denoruntime.ts, noderuntime.ts)  *)
(* in its two builds: the full build (six signal names, registration      *)
(* wrapped in try/catch) and the restricted build (two signal names, no    *)
(* try/catch).  The host (Deno / Node process, the OS) is the environment: *)
(* its argument vector, its two streams, its signal registry and its       *)
(* process state are variables; the facade's methods are the actions.      *)
(***************************************************************************)
EXTENDS Integers, Sequences, FiniteSets, TLC

VARIABLES
    build,       \* "full" | "restricted": which build of the facade is loaded
    denoGlobal,  \* globalThis.Deno is present
    platform,    \* the operating system the host runs on
    userArgs,    \* the arguments the user supplied on the command line
    loading,     \* getRuntime's position: "idle", or the branch awaiting its import
    handle,      \* the Runtime the caller holds (NoHandle before getRuntime resolves)
    outW,        \* writes the host received on standard output, each a byte sequence
    errW,        \* writes the host received on standard error
    listeners,   \* the host's signal registry: signal name -> callbacks, in order
    invoked,     \* callbacks the host has invoked, in order
    exited,      \* the process has terminated
    exitCode,    \* the status the host's exit primitive was given
    history      \* every call made so far with its outcome, in call order

vars == <<build, denoGlobal, platform, userArgs, loading, handle, outW, errW,
          listeners, invoked, exited, exitCode, history>>

(***************************************************************************)
(* Bounds of the model.                                                    *)
(***************************************************************************)
MaxCalls == 4
MaxCallsAll == 3
MaxArgs == 2

(***************************************************************************)
(* Vocabularies and platforms.                                             *)
(***************************************************************************)
AllSignals == {"SIGINT", "SIGTERM", "SIGHUP", "SIGUSR1", "SIGUSR2", "SIGINFO"}

Vocabulary(b) ==
    IF b = "full" THEN {"SIGINT", "SIGTERM", "SIGHUP", "SIGUSR1", "SIGUSR2", "SIGINFO"}
    ELSE {"SIGTERM", "SIGINFO"}

Platforms == {"windows", "linux", "macos"}

OsSupports(p) ==
    CASE p = "windows" -> {"SIGINT", "SIGTERM"}
      [] p = "linux"   -> {"SIGINT", "SIGTERM", "SIGHUP", "SIGUSR1", "SIGUSR2"}
      [] p = "macos"   -> {"SIGINT", "SIGTERM", "SIGHUP", "SIGUSR1", "SIGUSR2", "SIGINFO"}

Callbacks == {"cb1", "cb2"}

ArgTokens == {"--test", "node"}

ExitCodes == {0, 1, 130}

HostErrors == {"EPIPE"}

Methods == {"args", "stdout", "stderr", "exit", "signal"}

NoHandle == [family |-> "none", ops |-> {}]

SeqsUpTo(S, n) == UNION {[1..k -> S] : k \in 0..n}

(***************************************************************************)
(* Strings are sequences of UTF-16 code units, as JavaScript strings are.  *)
(* The samples: "", "H\n", a string of a 2-byte, a 3-byte and a 4-byte     *)
(* code point (the last a surrogate pair), and a string of two unpaired    *)
(* surrogates (a low one followed by a high one).                          *)
(***************************************************************************)
SampleStrings ==
    { <<>>, <<72, 10>>, <<233, 19990, 55356, 57101>>, <<57101, 55356>> }

IsHighSurrogate(u) == u >= 55296 /\ u <= 56319
IsLowSurrogate(u) == u >= 56320 /\ u <= 57343

\* The scalar values of a string: a surrogate pair is one code point, an
\* unpaired surrogate becomes U+FFFD (what TextEncoder.encode does first).
RECURSIVE ScalarValues(_)
ScalarValues(s) ==
    IF s = <<>> THEN <<>>
    ELSE IF IsHighSurrogate(s[1]) /\ Len(s) >= 2 /\ IsLowSurrogate(s[2])
         THEN <<65536 + (s[1] - 55296) * 1024 + (s[2] - 56320)>>
                  \o ScalarValues(SubSeq(s, 3, Len(s)))
    ELSE IF IsHighSurrogate(s[1]) \/ IsLowSurrogate(s[1])
         THEN <<65533>> \o ScalarValues(Tail(s))
    ELSE <<s[1]>> \o ScalarValues(Tail(s))

\* The UTF-8 bytes of one scalar value.
Utf8Bytes(c) ==
    IF c < 128 THEN <<c>>
    ELSE IF c < 2048 THEN <<192 + (c \div 64), 128 + (c % 64)>>
    ELSE IF c < 65536
         THEN <<224 + (c \div 4096), 128 + ((c \div 64) % 64), 128 + (c % 64)>>
    ELSE <<240 + (c \div 262144), 128 + ((c \div 4096) % 64),
           128 + ((c \div 64) % 64), 128 + (c % 64)>>

RECURSIVE Utf8OfScalars(_)
Utf8OfScalars(cs) ==
    IF cs = <<>> THEN <<>> ELSE Utf8Bytes(cs[1]) \o Utf8OfScalars(Tail(cs))

\* new TextEncoder().encode(s)
TextEncode(s) == Utf8OfScalars(ScalarValues(s))

\* A write that ends the line, as console.log would.
DenoWriteLine(s) == TextEncode(s) \o <<10>>

\* What the Deno methods hand to Deno.stdout.writeSync / Deno.stderr.writeSync.
DenoWriteBytes(s) == TextEncode(s)

\* What process.stdout.write(s) / process.stderr.write(s) puts on the stream:
\* the string chunk in the default encoding, UTF-8.
NodeWriteBytes(s) == TextEncode(s)

WriteBytes(family, s) ==
    IF family = "deno" THEN DenoWriteBytes(s) ELSE NodeWriteBytes(s)

(***************************************************************************)
(* Arguments.                                                              *)
(***************************************************************************)
\* Array.prototype.slice(start) on a sequence.
Slice(a, start) ==
    IF start >= Len(a) THEN <<>> ELSE SubSeq(a, start + 1, Len(a))

\* process.argv: the executable, the script, then the user's arguments.
ProcessArgv == <<"/usr/bin/node", "/app/main.js">> \o userArgs

\* Deno.args: the user's arguments only.
DenoArgsVector == userArgs

\* process.argv.slice(1): the script path is kept.
NodeArgsKeepingScript == Slice(ProcessArgv, 1)

NodeArgs == Slice(ProcessArgv, 2)

DenoArgs == DenoArgsVector

ArgsOf(family) == IF family = "deno" THEN DenoArgs ELSE NodeArgs

(***************************************************************************)
(* Outcomes of a call.                                                     *)
(***************************************************************************)
\* A method that catches the host's failure and returns.
Swallowing(hostErr) == [outcome |-> "returned", err |-> "none"]

\* A method with no try/catch: the host's failure is the caller's.
PassThrough(hostErr) ==
    [outcome |-> IF hostErr = "none" THEN "returned" ELSE "threw", err |-> hostErr]

\* A method whose host call sits in try { } catch (_err) { }.
Guarded(hostErr) == [outcome |-> "returned", err |-> "none"]

\* signal() without its try/catch.
SignalNeverCatches(family, b) == FALSE

\* Whether signal() wraps the registration in try/catch.
SignalCatches(family, b) == b = "full"

SignalOutcome(family, b, hostErr) ==
    IF SignalCatches(family, b) THEN Guarded(hostErr) ELSE PassThrough(hostErr)

\* A catch block that warns on standard error ("W\n").
CatchBlockWarning == << <<87, 10>> >>

\* What the catch block of signal() writes to standard error: nothing.
CatchBlockWrites == <<>>

\* The host's registration primitive raises for a signal the OS lacks.
NativeSignalError(sig) ==
    IF sig \in OsSupports(platform) THEN "none" ELSE "ENOTSUP"

\* A registration that takes the place of the earlier ones.
RegisterReplacing(ls, sig, cb) == [ls EXCEPT ![sig] = <<cb>>]

\* Deno.addSignalListener(signal, cb) / process.on(signal, cb), accepted.
RegisterNative(ls, sig, cb) == [ls EXCEPT ![sig] = Append(@, cb)]

\* An exit that maps every failure code to 1.
ExitStatusNormalised(code) == IF code = 0 THEN 0 ELSE 1

\* Deno.exit(code) / process.exit(code): the status handed to the host.
ExitStatus(code) == code

\* The branch inverted.
SelectFamilyInverted(marker) == IF marker THEN "node" ELSE "deno"

\* getRuntime's branch on globalThis.Deno.
SelectFamily(marker) == IF marker THEN "deno" ELSE "node"

\* runtime(): new DenoRuntime() / new NodeRuntime().
Runtime(family) == [family |-> family, ops |-> Methods]

Entry(op, arg, hostErr, res, value) ==
    [op |-> op, arg |-> arg, hostErr |-> hostErr, outcome |-> res.outcome,
     err |-> res.err, value |-> value]

\* The caller holds a handle and the process is running.
Live == handle # NoHandle /\ ~exited

Room == Len(history) < MaxCalls

(***************************************************************************)
(* Initial states: a freshly started process that has called nothing.      *)
(***************************************************************************)
InitWith(platforms, argVectors) ==
    /\ build \in {"full", "restricted"}
    /\ denoGlobal \in BOOLEAN
    /\ platform \in platforms
    /\ userArgs \in argVectors
    /\ loading = "idle"
    /\ handle = NoHandle
    /\ outW = <<>>
    /\ errW = <<>>
    /\ listeners = [sig \in AllSignals |-> <<>>]
    /\ invoked = <<>>
    /\ exited = FALSE
    /\ exitCode = -1
    /\ history = <<>>

Init == InitWith(Platforms, {<<>>, <<"--test", "node">>})

(***************************************************************************)
(* getRuntime(): the branch is taken on the marker when the call is made;  *)
(* the handle exists once the awaited import has settled.                  *)
(***************************************************************************)
GetRuntimeCall ==
    /\ ~exited
    /\ Room
    /\ loading = "idle"
    /\ loading' = SelectFamily(denoGlobal)
    /\ UNCHANGED <<build, denoGlobal, platform, userArgs, handle, outW, errW,
                   listeners, invoked, exited, exitCode, history>>

ImportSettle(fault) ==
    /\ ~exited
    /\ loading # "idle"
    /\ loading' = "idle"
    /\ handle' = IF fault = "none" THEN Runtime(loading) ELSE handle
    /\ history' = Append(history,
                         Entry("getRuntime", <<denoGlobal>>, fault, PassThrough(fault),
                               IF fault = "none" THEN <<Runtime(loading)>> ELSE <<>>))
    /\ UNCHANGED <<build, denoGlobal, platform, userArgs, outW, errW,
                   listeners, invoked, exited, exitCode>>

(***************************************************************************)
(* The five methods of the handle.                                         *)
(***************************************************************************)
Args(fault) ==
    /\ Live
    /\ Room
    /\ history' = Append(history,
                         Entry("args", <<>>, fault, PassThrough(fault),
                               IF fault = "none" THEN ArgsOf(handle.family) ELSE <<>>))
    /\ UNCHANGED <<build, denoGlobal, platform, userArgs, loading, handle, outW,
                   errW, listeners, invoked, exited, exitCode>>

\* stdout() writing to the other stream.
StdoutOnStderr(s, fault) ==
    /\ Live
    /\ Room
    /\ errW' = IF fault = "none" THEN Append(errW, WriteBytes(handle.family, s))
               ELSE errW
    /\ history' = Append(history,
                         Entry("stdout", <<s>>, fault, PassThrough(fault), <<>>))
    /\ UNCHANGED <<build, denoGlobal, platform, userArgs, loading, handle, outW,
                   listeners, invoked, exited, exitCode>>

Stdout(s, fault) ==
    /\ Live
    /\ Room
    /\ outW' = IF fault = "none" THEN Append(outW, WriteBytes(handle.family, s))
               ELSE outW
    /\ history' = Append(history,
                         Entry("stdout", <<s>>, fault, PassThrough(fault), <<>>))
    /\ UNCHANGED <<build, denoGlobal, platform, userArgs, loading, handle, errW,
                   listeners, invoked, exited, exitCode>>

Stderr(s, fault) ==
    /\ Live
    /\ Room
    /\ errW' = IF fault = "none" THEN Append(errW, WriteBytes(handle.family, s))
               ELSE errW
    /\ history' = Append(history,
                         Entry("stderr", <<s>>, fault, PassThrough(fault), <<>>))
    /\ UNCHANGED <<build, denoGlobal, platform, userArgs, loading, handle, outW,
                   listeners, invoked, exited, exitCode>>

Exit(code, fault) ==
    /\ Live
    /\ Room
    /\ exited' = (fault = "none")
    /\ exitCode' = IF fault = "none" THEN ExitStatus(code) ELSE exitCode
    /\ history' = Append(history,
                         Entry("exit", <<code>>, fault,
                               IF fault = "none"
                               THEN [outcome |-> "terminated", err |-> "none"]
                               ELSE PassThrough(fault),
                               <<>>))
    /\ UNCHANGED <<build, denoGlobal, platform, userArgs, loading, handle, outW,
                   errW, listeners, invoked>>

Signal(sig, cb) ==
    /\ Live
    /\ Room
    /\ sig \in Vocabulary(build)
    /\ LET hostErr == NativeSignalError(sig)
           caught == hostErr # "none" /\ SignalCatches(handle.family, build)
       IN  /\ listeners' = IF hostErr = "none" THEN RegisterNative(listeners, sig, cb)
                           ELSE listeners
           /\ errW' = IF caught THEN errW \o CatchBlockWrites ELSE errW
           /\ history' = Append(history,
                                Entry("signal", <<sig, cb>>, hostErr,
                                      SignalOutcome(handle.family, build, hostErr),
                                      <<>>))
    /\ UNCHANGED <<build, denoGlobal, platform, userArgs, loading, handle, outW,
                   invoked, exited, exitCode>>

(***************************************************************************)
(* The environment: the OS delivers a signal the process listens for, and  *)
(* the host invokes every callback registered for it, in order.            *)
(***************************************************************************)
Deliver(sig) ==
    /\ ~exited
    /\ Room
    /\ sig \in OsSupports(platform)
    /\ listeners[sig] # <<>>
    /\ invoked' = invoked \o listeners[sig]
    /\ history' = Append(history,
                         Entry("deliver", <<sig>>, "none", PassThrough("none"),
                               listeners[sig]))
    /\ UNCHANGED <<build, denoGlobal, platform, userArgs, loading, handle, outW,
                   errW, listeners, exited, exitCode>>

Faults == {"none"} \cup HostErrors

(***************************************************************************)
(* Specifications.  Spec is the whole facade; the others run the           *)
(* operations one concern needs, with a longer call budget.                *)
(***************************************************************************)
RoomAll == Len(history) < MaxCallsAll

Next ==
    \/ RoomAll /\ GetRuntimeCall
    \/ RoomAll /\ \E f \in Faults : ImportSettle(f)
    \/ RoomAll /\ \E f \in Faults : Args(f)
    \/ RoomAll /\ \E s \in SampleStrings, f \in Faults : Stdout(s, f)
    \/ RoomAll /\ \E s \in SampleStrings, f \in Faults : Stderr(s, f)
    \/ RoomAll /\ \E c \in ExitCodes, f \in Faults : Exit(c, f)
    \/ RoomAll /\ \E sig \in AllSignals, cb \in Callbacks : Signal(sig, cb)
    \/ RoomAll /\ \E sig \in AllSignals : Deliver(sig)

Spec == Init /\ [][Next]_vars

InitArgs == InitWith({"linux"}, SeqsUpTo(ArgTokens, MaxArgs))

NextArgs ==
    \/ GetRuntimeCall
    \/ \E f \in Faults : ImportSettle(f)
    \/ \E f \in Faults : Args(f)

SpecArgs == InitArgs /\ [][NextArgs]_vars

InitIO == InitWith({"linux"}, {<<>>})

NextIO ==
    \/ GetRuntimeCall
    \/ \E f \in Faults : ImportSettle(f)
    \/ \E s \in SampleStrings, f \in Faults : Stdout(s, f)
    \/ \E s \in SampleStrings, f \in Faults : Stderr(s, f)

SpecIO == InitIO /\ [][NextIO]_vars

InitSig == InitWith(Platforms, {<<>>})

NextSig ==
    \/ GetRuntimeCall
    \/ \E f \in Faults : ImportSettle(f)
    \/ \E sig \in AllSignals, cb \in Callbacks : Signal(sig, cb)
    \/ \E sig \in AllSignals : Deliver(sig)

SpecSig == InitSig /\ [][NextSig]_vars

(***************************************************************************)
(* What an observer of a stream reads: the UTF-8 bytes decoded back to     *)
(* UTF-16 code units.                                                      *)
(***************************************************************************)
Utf16Units(c) ==
    IF c < 65536 THEN <<c>>
    ELSE <<55296 + ((c - 65536) \div 1024), 56320 + ((c - 65536) % 1024)>>

RECURSIVE TextDecode(_)
TextDecode(b) ==
    IF b = <<>> THEN <<>>
    ELSE IF b[1] < 128
         THEN <<b[1]>> \o TextDecode(SubSeq(b, 2, Len(b)))
    ELSE IF b[1] < 224
         THEN Utf16Units((b[1] - 192) * 64 + (b[2] - 128))
                  \o TextDecode(SubSeq(b, 3, Len(b)))
    ELSE IF b[1] < 240
         THEN Utf16Units((b[1] - 224) * 4096 + (b[2] - 128) * 64 + (b[3] - 128))
                  \o TextDecode(SubSeq(b, 4, Len(b)))
    ELSE Utf16Units((b[1] - 240) * 262144 + (b[2] - 128) * 4096
                        + (b[3] - 128) * 64 + (b[4] - 128))
             \o TextDecode(SubSeq(b, 5, Len(b)))

\* s with every unpaired surrogate code unit replaced by U+FFFD.
RECURSIVE ReplaceUnpaired(_)
ReplaceUnpaired(s) ==
    IF s = <<>> THEN <<>>
    ELSE IF IsHighSurrogate(s[1]) /\ Len(s) >= 2 /\ IsLowSurrogate(s[2])
         THEN <<s[1], s[2]>> \o ReplaceUnpaired(SubSeq(s, 3, Len(s)))
    ELSE IF IsHighSurrogate(s[1]) \/ IsLowSurrogate(s[1])
         THEN <<65533>> \o ReplaceUnpaired(Tail(s))
    ELSE <<s[1]>> \o ReplaceUnpaired(Tail(s))

WellFormed(s) == ReplaceUnpaired(s) = s

Last == history[Len(history)]

Grew == Len(history') = Len(history) + 1

NewEntry == history'[Len(history')]

\* The calls of one method that returned normally, in call order.
Returned(h, op) == SelectSeq(h, LAMBDA e : e.op = op /\ e.outcome = "returned")

\* The callbacks passed to signal(sig, _) in the calls of h, in call order.
CallbacksPassed(h, sig) ==
    LET calls == SelectSeq(h, LAMBDA e : e.op = "signal" /\ e.arg[1] = sig)
    IN  [k \in 1..Len(calls) |-> calls[k].arg[2]]

(***************************************************************************)
(* C1: in the full build, on the Deno and on the Node implementation,      *)
(* signal(name, cb) returns normally for every name of the six-name        *)
(* vocabulary, whether the host accepts the registration or raises         *)
(* because the OS lacks the signal.                                        *)
(***************************************************************************)
C1_SignalAlwaysReturns ==
    build = "full" =>
        \A i \in DOMAIN history :
            history[i].op = "signal" =>
                /\ history[i].arg[1] \in AllSignals
                /\ history[i].outcome = "returned"
                /\ history[i].err = "none"

C1_Witness ==
    /\ build = "full"
    /\ \E i \in DOMAIN history, j \in DOMAIN history :
          /\ history[i].op = "signal" /\ history[i].hostErr # "none"
          /\ history[i].outcome = "returned"
          /\ history[j].op = "signal" /\ history[j].hostErr = "none"
          /\ history[j].outcome = "returned"

(***************************************************************************)
(* C2: in the restricted build, on a host whose registration primitive     *)
(* raises for SIGINFO, signal("SIGINFO", cb) returns normally and cb is    *)
(* never invoked.  (The statement of the claim; the restricted build has   *)
(* no try/catch.)                                                          *)
(***************************************************************************)
C2_RestrictedSigInfoReturns ==
    (build = "restricted" /\ "SIGINFO" \notin OsSupports(platform)) =>
        \A i \in DOMAIN history :
            (history[i].op = "signal" /\ history[i].arg[1] = "SIGINFO") =>
                /\ history[i].outcome = "returned"
                /\ history[i].arg[2] \notin {invoked[k] : k \in DOMAIN invoked}

(***************************************************************************)
(* C3: on a host that supports the named signal, every callback passed to  *)
(* signal(name, _) is retained, in registration order: a later             *)
(* registration never replaces an earlier one, N registrations leave N     *)
(* entries, and a delivery of the signal invokes every one of them.        *)
(***************************************************************************)
C3_RegistrationsRetained ==
    /\ \A sig \in OsSupports(platform) :
          listeners[sig] = CallbacksPassed(history, sig)
    /\ \A i \in DOMAIN history :
          history[i].op = "deliver" =>
              history[i].value =
                  CallbacksPassed(SubSeq(history, 1, i - 1), history[i].arg[1])

C3_Witness ==
    /\ Len(history) > 0
    /\ Last.op = "deliver"
    /\ Last.arg[1] = "SIGUSR1"
    /\ Last.value = <<"cb1", "cb2">>
    /\ invoked = <<"cb1", "cb2">>
    /\ listeners["SIGUSR1"] = <<"cb1", "cb2">>

(***************************************************************************)
(* C4: args() returns exactly the user's arguments in their order: the     *)
(* Node implementation drops exactly the first two entries of              *)
(* process.argv, the Deno implementation returns Deno.args as it is, both  *)
(* return the empty sequence when the user supplied none, and so both      *)
(* give the same result for the same user arguments.                       *)
(***************************************************************************)
C4_ArgsAreUserArgs ==
    \A i \in DOMAIN history :
        (history[i].op = "args" /\ history[i].outcome = "returned") =>
            /\ history[i].value = userArgs
            /\ handle.family = "node" =>
                   /\ Len(history[i].value) = Len(ProcessArgv) - 2
                   /\ ProcessArgv = SubSeq(ProcessArgv, 1, 2) \o history[i].value
            /\ handle.family = "deno" => history[i].value = DenoArgsVector

C4_Witness ==
    /\ handle.family = "node"
    /\ userArgs = <<"node", "--test">>
    /\ Len(history) > 0
    /\ Last.op = "args"
    /\ Last.outcome = "returned"
    /\ Last.value = <<"node", "--test">>

(***************************************************************************)
(* C7: getRuntime() returns the Deno implementation exactly when           *)
(* globalThis.Deno is present at the call and the Node implementation      *)
(* otherwise; two calls under the same marker select the same family; the  *)
(* handle provides args, stdout, stderr, exit and signal.                  *)
(***************************************************************************)
C7_SelectionByMarker ==
    /\ \A i \in DOMAIN history :
          (history[i].op = "getRuntime" /\ history[i].outcome = "returned") =>
              /\ history[i].value[1].family = "deno" <=> history[i].arg[1]
              /\ history[i].value[1].family = "node" <=> ~history[i].arg[1]
              /\ history[i].value[1].ops = {"args", "stdout", "stderr", "exit", "signal"}
    /\ \A i \in DOMAIN history, j \in DOMAIN history :
          ( /\ history[i].op = "getRuntime" /\ history[i].outcome = "returned"
            /\ history[j].op = "getRuntime" /\ history[j].outcome = "returned"
            /\ history[i].arg[1] = history[j].arg[1] ) =>
              history[i].value[1].family = history[j].value[1].family
    /\ handle # NoHandle =>
          /\ handle.family = (IF denoGlobal THEN "deno" ELSE "node")
          /\ handle.ops = {"args", "stdout", "stderr", "exit", "signal"}

C7_Witness ==
    /\ Len(history) >= 2
    /\ history[1].op = "getRuntime" /\ history[1].outcome = "returned"
    /\ history[2].op = "getRuntime" /\ history[2].outcome = "returned"
    /\ ~denoGlobal
    /\ handle.family = "node"

(***************************************************************************)
(* C9: a failure of the host primitive behind args, stdout, stderr or      *)
(* exit, or of the import in getRuntime, reaches the caller as the same    *)
(* failure; only signal() ever turns a host failure into a normal return.  *)
(***************************************************************************)
C9_FailuresPropagate ==
    \A i \in DOMAIN history :
        /\ (history[i].op \in {"args", "stdout", "stderr", "exit", "getRuntime"}
              /\ history[i].hostErr # "none") =>
               /\ history[i].outcome = "threw"
               /\ history[i].err = history[i].hostErr
        /\ (history[i].hostErr # "none" /\ history[i].outcome # "threw") =>
               history[i].op = "signal"
        /\ history[i].outcome = "threw" => history[i].err = history[i].hostErr

C9_Witness ==
    /\ Len(history) = 3
    /\ history[1].op = "getRuntime" /\ history[1].outcome = "threw"
    /\ history[2].op = "getRuntime" /\ history[2].outcome = "returned"
    /\ history[3].op = "stdout" /\ history[3].hostErr = "EPIPE"
    /\ history[3].outcome = "threw" /\ history[3].err = "EPIPE"
    /\ outW = <<>>

(***************************************************************************)
(* C5 as stated: for every string s, one stdout(s) or stderr(s) that       *)
(* returns makes exactly one write on its stream, and what the stream      *)
(* then carries for that write reads back as s exactly.                    *)
(***************************************************************************)
C5_OneWriteOfExactlyS ==
    [][ (Grew /\ NewEntry.op \in {"stdout", "stderr"}
              /\ NewEntry.outcome = "returned") =>
          LET s == NewEntry.arg[1]
          IN  IF NewEntry.op = "stdout"
              THEN /\ Len(outW') = Len(outW) + 1
                   /\ SubSeq(outW', 1, Len(outW)) = outW
                   /\ TextDecode(outW'[Len(outW')]) = s
                   /\ errW' = errW
              ELSE /\ Len(errW') = Len(errW) + 1
                   /\ SubSeq(errW', 1, Len(errW)) = errW
                   /\ TextDecode(errW'[Len(errW')]) = s
                   /\ outW' = outW ]_vars

(***************************************************************************)
(* C5 amended: for every string s, one stdout(s) or stderr(s) that         *)
(* returns makes exactly one write on its stream and none on the other;    *)
(* the write reads back as s with each unpaired surrogate code unit        *)
(* replaced by U+FFFD, so as s exactly when s is well-formed (the empty    *)
(* string and multi-byte characters included), with no terminator added    *)
(* or stripped.                                                            *)
(***************************************************************************)
C5_OneWriteOfWellFormedS ==
    [][ (Grew /\ NewEntry.op \in {"stdout", "stderr"}
              /\ NewEntry.outcome = "returned") =>
          LET s == NewEntry.arg[1]
              before == IF NewEntry.op = "stdout" THEN outW ELSE errW
              after == IF NewEntry.op = "stdout" THEN outW' ELSE errW'
          IN  /\ Len(after) = Len(before) + 1
              /\ SubSeq(after, 1, Len(before)) = before
              /\ TextDecode(after[Len(after)]) = ReplaceUnpaired(s)
              /\ WellFormed(s) => TextDecode(after[Len(after)]) = s
              /\ NewEntry.op = "stdout" => errW' = errW
              /\ NewEntry.op = "stderr" => outW' = outW ]_vars

C5_Witness ==
    /\ Len(history) = 4
    /\ history[2].op = "stdout" /\ history[2].outcome = "returned"
    /\ history[2].arg[1] = <<>>
    /\ history[3].op = "stdout" /\ history[3].outcome = "returned"
    /\ history[3].arg[1] = <<233, 19990, 55356, 57101>>
    /\ history[4].op = "stderr" /\ history[4].outcome = "returned"
    /\ history[4].arg[1] = <<72, 10>>
    /\ Len(outW) = 2
    /\ outW[1] = <<>>
    /\ TextDecode(outW[2]) = <<233, 19990, 55356, 57101>>
    /\ Len(errW) = 1
    /\ TextDecode(errW[1]) = <<72, 10>>

(***************************************************************************)
(* What each stream reads back as, write by write, and the strings the     *)
(* returned calls of a method were given, call by call.                    *)
(***************************************************************************)
ReadBack(w) == [k \in 1..Len(w) |-> TextDecode(w[k])]

StringsPassed(op) ==
    LET calls == Returned(history, op)
    IN  [k \in 1..Len(calls) |-> calls[k].arg[1]]

(***************************************************************************)
(* C6 as stated: for any interleaving of stdout and stderr calls, standard *)
(* output carries exactly the strings passed to stdout, in call order,     *)
(* standard error exactly the strings passed to stderr, in call order, and *)
(* nothing passed to one stream is on the other.                           *)
(***************************************************************************)
C6_StreamsCarryTheirStrings ==
    /\ ReadBack(outW) = StringsPassed("stdout")
    /\ ReadBack(errW) = StringsPassed("stderr")

(***************************************************************************)
(* C6 amended: for any interleaving of stdout and stderr calls, standard   *)
(* output carries, in call order, exactly the strings passed to stdout,    *)
(* and standard error exactly the strings passed to stderr, each with its  *)
(* unpaired surrogate code units replaced by U+FFFD (so exactly the        *)
(* strings passed, when they are well-formed); nothing passed to one       *)
(* stream is on the other.                                                 *)
(***************************************************************************)
C6_StreamsCarryTheirWellFormedStrings ==
    LET out == StringsPassed("stdout")
        err == StringsPassed("stderr")
    IN  /\ Len(outW) = Len(out)
        /\ Len(errW) = Len(err)
        /\ \A k \in DOMAIN out :
              /\ TextDecode(outW[k]) = ReplaceUnpaired(out[k])
              /\ WellFormed(out[k]) => TextDecode(outW[k]) = out[k]
        /\ \A k \in DOMAIN err :
              /\ TextDecode(errW[k]) = ReplaceUnpaired(err[k])
              /\ WellFormed(err[k]) => TextDecode(errW[k]) = err[k]

C6_Witness ==
    /\ Len(history) = 4
    /\ history[2].op = "stdout" /\ history[2].arg[1] = <<72, 10>>
    /\ history[3].op = "stderr" /\ history[3].arg[1] = <<233, 19990, 55356, 57101>>
    /\ history[4].op = "stdout" /\ history[4].arg[1] = <<>>
    /\ ReadBack(outW) = << <<72, 10>>, <<>> >>
    /\ ReadBack(errW) = << <<233, 19990, 55356, 57101>> >>

(***************************************************************************)
(* C8: exit(code), on either implementation, terminates the process with   *)
(* exactly the code it was given, zero or not, and is terminal: it is the  *)
(* last call of the run, and once the process has exited nothing is        *)
(* written to either stream, no listener is registered and no call is      *)
(* made.                                                                   *)
(***************************************************************************)
C8_ExitForwardsAndIsTerminal ==
    /\ [](\A i \in DOMAIN history :
             (history[i].op = "exit" /\ history[i].hostErr = "none") =>
                 /\ exited
                 /\ exitCode = history[i].arg[1]
                 /\ history[i].outcome = "terminated"
                 /\ i = Len(history))
    /\ [](exited => (Len(history) > 0 /\ Last.op = "exit" /\ Last.hostErr = "none"))
    /\ [][exited => /\ exited'
                    /\ exitCode' = exitCode
                    /\ outW' = outW
                    /\ errW' = errW
                    /\ listeners' = listeners
                    /\ invoked' = invoked
                    /\ history' = history]_vars

C8_Witness ==
    /\ exited
    /\ exitCode = 130
    /\ Len(history) = 3
    /\ history[2].op = "stdout" /\ history[2].outcome = "returned"
    /\ Len(outW) = 1
    /\ Last.op = "exit"
    /\ Last.arg[1] = 130
    /\ ~ENABLED Next

(***************************************************************************)
(* C10: a signal(name, cb) for a signal the OS lacks leaves no trace: the  *)
(* host's registry of callbacks, the record of invoked callbacks and both  *)
(* streams are after the call what they were before it (so earlier         *)
(* registrations stay), and in the full build the call returns normally.   *)
(***************************************************************************)
C10_UnsupportedSignalIsNoOp ==
    [][ (Grew /\ NewEntry.op = "signal"
              /\ NewEntry.arg[1] \notin OsSupports(platform)) =>
          /\ listeners' = listeners
          /\ invoked' = invoked
          /\ outW' = outW
          /\ errW' = errW
          /\ exited' = exited
          /\ handle' = handle
          /\ build = "full" => NewEntry.outcome = "returned" ]_vars

C10_Witness ==
    /\ build = "full"
    /\ platform = "linux"
    /\ Len(history) = 3
    /\ history[2].op = "signal" /\ history[2].arg = <<"SIGTERM", "cb1">>
    /\ history[3].op = "signal" /\ history[3].arg = <<"SIGINFO", "cb2">>
    /\ history[3].hostErr # "none"
    /\ history[3].outcome = "returned"
    /\ listeners["SIGTERM"] = <<"cb1">>
    /\ listeners["SIGINFO"] = <<>>
    /\ outW = <<>>
    /\ errW = <<>>

====
